---------------------------- MODULE Spec2Model ----------------------------
(* Model of the zuli smartplug package: the protocol codec               *)
(* (src/src/zuli/protocol.py) and the command layer built on bleak       *)
(* clients (src/src/zuli/smartplug.py), and the background discovery of  *)
(* the command line (src/src/zuli/__main__.py).                          *)
(*                                                                       *)
(* A bytearray is a sequence of numbers in 0..255; Python index k is     *)
(* TLA+ index k+1.  A call that may raise is modelled by its outcome:    *)
(* Ret(v) for a returned value, Raise(e) for a raised exception e.       *)
EXTENDS Integers, Sequences, FiniteSets, TLC

VARIABLES
    mode,       \* which part of the package the behaviour exercises
    sched,      \* codec: the Schedule object handed to to_bytes
    raw,        \* codec: the bytearray produced by to_bytes
    back,       \* codec: outcome of Schedule.from_bytes(raw)
    buf,        \* codec: a response buffer handed to a decoder
    which,      \* codec: the decoder that was applied to buf
    res,        \* codec: outcome of that decoder
    enc,        \* codec: the encoder that is called
    inp,        \* codec: the argument handed to that encoder
    packet,     \* codec: the packet the encoder produced
    clients,    \* command layer: the list of clients handed to the operation
    dec,        \* command layer: decode_response argument of _send_commands
    stored,     \* peripheral: stored[c] is the schedule list client c's plug holds
    arg,        \* command layer: the index i of remove_client_schedule
    msg,        \* command layer: what encode_message gives ("bytes" or "none")
    pc,         \* pc[t]: position of coroutine t inside its current exchange
    ph,         \* ph[t]: which exchange of its operation coroutine t is in
    slot,       \* slot[t]: how many values of range(1, n + 1) the loop has taken
    num,        \* num[t]: num_schedules read by get_client_schedules
    acc,        \* acc[t]: list built by get_schedules_wrapper
    outcome,    \* outcome[t]: outcome of coroutine t once it has finished
    cause,      \* cause[t]: what the transport did in t's exchanges (history)
    completed,  \* coroutines in completion order (the as_completed queue)
    yielded,    \* results the generator has yielded so far
    gen,        \* generator: "running", "exhausted" or "raised"
    log,        \* log[t]: transport events of coroutine t, in order (history)
    devices,    \* discovery: devices[a] is the client held for address a
                \* (filter_devices: the dictionary's items in insertion order)
    made,       \* discovery: the BleakClient objects created, in order
    disc,       \* discovery: state of the discover() task
    heard       \* discovery: number of advertisements received (history)

codecVars == <<sched, raw, back, buf, which, res, enc, inp, packet>>
discVars == <<devices, made, disc, heard>>
cmdVars == <<clients, dec, stored, arg, msg, pc, ph, slot, num, acc, outcome,
             cause, completed, yielded, gen, log>>
vars == <<mode, sched, raw, back, buf, which, res, enc, inp, packet,
          clients, dec, stored, arg, msg, pc, ph, slot, num, acc, outcome,
          cause, completed, yielded, gen, log, devices, made, disc, heard>>

-----------------------------------------------------------------------------
(* Outcomes of calls: a value returned, an exception raised, or neither yet. *)

Pending == [kind |-> "pending"]
Ret(v) == [kind |-> "return", val |-> v]
Raise(e) == [kind |-> "raise", exc |-> e]
IsRet(o) == o.kind = "return"
IsRaise(o) == o.kind = "raise"

Min(a, b) == IF a < b THEN a ELSE b
Max(a, b) == IF a > b THEN a ELSE b

RECURSIVE Pow2(_)
Pow2(n) == IF n = 0 THEN 1 ELSE 2 * Pow2(n - 1)

\* x & (1 << i) == (1 << i)
BitSet(x, i) == (x \div Pow2(i)) % 2 = 1

\* response[k] for a Python index k that is inside the buffer
At(b, k) == b[k + 1]

\* response[lo:hi]: a slice never raises, it is cut at the end of the buffer
Slice(b, lo, hi) == SubSeq(b, lo + 1, Min(hi, Len(b)))

\* int.from_bytes(bytes), big-endian (the default byteorder)
RECURSIVE FromBytes(_)
FromBytes(b) ==
    IF Len(b) = 0 THEN 0
    ELSE 256 * FromBytes(SubSeq(b, 1, Len(b) - 1)) + b[Len(b)]

-----------------------------------------------------------------------------
(* protocol.py: opcodes and statuses *)

CMD_RESET == 2
CMD_CLOCK_SET == 8
CMD_CLOCK_GET == 9
CMD_MODE_SET == 16
CMD_ON == 23
CMD_OFF == 24
CMD_POWER_READ == 32
CMD_SCHEDULE_INFO_GET == 48
CMD_SCHEDULE_GET == 49
CMD_SCHEDULE_ADD == 51
CMD_SCHEDULE_REMOVE == 52

\* the values of the ZuliCommand enumeration
ZuliCommand ==
    {CMD_RESET, 6, 7, CMD_CLOCK_SET, CMD_CLOCK_GET, 10, 11, CMD_MODE_SET, 17,
     21, 22, CMD_ON, CMD_OFF, 25, CMD_POWER_READ, 33, 34, 35, 36,
     CMD_SCHEDULE_INFO_GET, CMD_SCHEDULE_GET, 50, CMD_SCHEDULE_ADD,
     CMD_SCHEDULE_REMOVE, 53, 80, 81, 126, 127}

STATUS_SUCCESS == 0
STATUS_BUSY == 5
STATUS_INVALID_PARAM == 6
STATUS_BAD_LENGTH == 15
STATUS_ALREADY_SET == 9

ZuliStatus == {STATUS_SUCCESS, STATUS_BUSY, STATUS_INVALID_PARAM,
               STATUS_BAD_LENGTH, STATUS_ALREADY_SET}

is_success_busy(status) ==
    status = STATUS_SUCCESS \/ status = STATUS_ALREADY_SET \/ status = STATUS_BUSY

is_success_only_zero(status) == status = STATUS_SUCCESS

is_success(status) == status = STATUS_SUCCESS \/ status = STATUS_ALREADY_SET

decode_response_status_default(response) ==
    IF Len(response) < 2 THEN Ret(STATUS_SUCCESS)
    ELSE IF At(response, 1) \notin ZuliStatus THEN Ret(STATUS_SUCCESS)
    ELSE Ret(At(response, 1))

\* response[1] raises IndexError on a short buffer; ZuliStatus(v) raises
\* ValueError when v is no member of the enumeration
decode_response_status(response) ==
    IF Len(response) < 2 THEN Raise("IndexError")
    ELSE IF At(response, 1) \notin ZuliStatus THEN Raise("ValueError")
    ELSE Ret(At(response, 1))

encode_on_unclamped(brightness) ==
    <<CMD_ON, 0, 0, 0, 0, brightness, 0, 0, 0>>

encode_on(brightness) ==
    <<CMD_ON, 0, 0, 0, 0, Min(100, Max(0, brightness)), 0, 0, 0>>

encode_off_on_opcode == <<CMD_ON, 0, 0, 0>>

encode_off == <<CMD_OFF, 0, 0, 0>>

encode_set_mode(is_appliance) ==
    <<CMD_MODE_SET, IF is_appliance THEN 0 ELSE 1>>

encode_get_clock == <<CMD_CLOCK_GET>>

encode_read_power == <<CMD_POWER_READ>>

\* n.to_bytes(2) for 0 <= n < 65536: two bytes, most significant first
to_bytes2(n) == <<n \div 256, n % 256>>

CONFIRM_RESET == 22890

encode_reset_plug == <<CMD_RESET, CMD_RESET, 0>> \o to_bytes2(CONFIRM_RESET)

-----------------------------------------------------------------------------
(* protocol.py: datetime validation done by the datetime constructors *)

IsLeap(y) == (y % 4 = 0) /\ ((y % 100 # 0) \/ (y % 400 = 0))

DaysInMonth(y, m) ==
    IF m = 2 THEN (IF IsLeap(y) THEN 29 ELSE 28)
    ELSE IF m \in {4, 6, 9, 11} THEN 30 ELSE 31

ValidTime(h, m, s) == h <= 23 /\ m <= 59 /\ s <= 59

ValidDate(y, m, d) ==
    /\ y >= 1 /\ y <= 9999
    /\ m >= 1 /\ m <= 12
    /\ d >= 1 /\ d <= DaysInMonth(y, m)

\* date.toordinal(): the days from 0001-01-01, which is day 1
RECURSIVE DaysBeforeMonth(_, _)
DaysBeforeMonth(y, m) ==
    IF m = 1 THEN 0 ELSE DaysBeforeMonth(y, m - 1) + DaysInMonth(y, m - 1)

DaysBeforeYear(y) ==
    (y - 1) * 365 + ((y - 1) \div 4) - ((y - 1) \div 100) + ((y - 1) \div 400)

toordinal(y, m, d) == DaysBeforeYear(y) + DaysBeforeMonth(y, m) + d

\* datetime.weekday(): Monday is 0 and Sunday is 6
weekday(time) == (toordinal(time.year, time.month, time.day) + 6) % 7

encode_set_clock_monday_first(time) ==
    <<CMD_CLOCK_SET>> \o to_bytes2(time.year) \o <<time.month, time.day, weekday(time) + 1,
                               time.hour, time.minute, time.second>>

encode_set_clock(time) ==
    LET year == to_bytes2(time.year)
        wd == ((weekday(time) + 1) % 7) + 1
    IN <<CMD_CLOCK_SET, year[1], year[2], time.month, time.day, wd,
         time.hour, time.minute, time.second>>

\* year is read through a slice (no IndexError), the other fields by index;
\* the arguments are evaluated before datetime() validates them
decode_get_clock(response) ==
    IF Len(response) < 10 THEN Raise("IndexError")
    ELSE LET year == FromBytes(Slice(response, 2, 4)) IN
         IF ValidDate(year, At(response, 4), At(response, 5))
            /\ ValidTime(At(response, 7), At(response, 8), At(response, 9))
         THEN Ret([year |-> year, month |-> At(response, 4),
                   day |-> At(response, 5), hour |-> At(response, 7),
                   minute |-> At(response, 8), second |-> At(response, 9)])
         ELSE Raise("ValueError")

decode_read_power_from_byte_3(response) ==
    Ret([irms_ma |-> FromBytes(Slice(response, 3, 5)),
         power_mw |-> FromBytes(Slice(response, 5, 8)),
         power_factor |-> FromBytes(Slice(response, 8, 10)),
         voltage_mv |-> FromBytes(Slice(response, 10, 13))])

\* every field is read through a slice, so nothing raises on a short buffer
decode_read_power(response) ==
    Ret([irms_ma |-> FromBytes(Slice(response, 2, 4)),
         power_mw |-> FromBytes(Slice(response, 4, 7)),
         power_factor |-> FromBytes(Slice(response, 7, 9)),
         voltage_mv |-> FromBytes(Slice(response, 9, 12))])

decode_get_schedule_info(response) ==
    IF Len(response) < 4 THEN Raise("IndexError")
    ELSE Ret([num_schedules |-> At(response, 2),
              max_schedules |-> At(response, 3)])

-----------------------------------------------------------------------------
(* protocol.py: Schedule *)

ACTION_ON == 1
ACTION_OFF == 2
ScheduleAction == {ACTION_ON, ACTION_OFF}

Days == 0..6

\* wire bit of local weekday i (Monday = 0): the plug's week starts on Sunday
Shift_identity(i) == i

Shift(i) == (i + 1) % 7

RECURSIVE MaskUpTo(_, _)
MaskUpTo(weekdays, i) ==
    IF i < 0 THEN 0
    ELSE MaskUpTo(weekdays, i - 1)
         + (IF weekdays[i] THEN Pow2(Shift(i)) ELSE 0)

to_bytes_unshifted(s) ==
    <<s.id, s.action, 0, 0, s.hour, s.minute, s.second,
      MaskUpTo([i \in Days |-> s.weekdays[(i + 1) % 7]], 6),
      IF s.enabled THEN 1 ELSE 0, s.schedule_id>>

to_bytes(s) ==
    <<s.id, s.action, 0, 0, s.hour, s.minute, s.second,
      MaskUpTo(s.weekdays, 6), IF s.enabled THEN 1 ELSE 0, s.schedule_id>>

\* raw[0], ScheduleAction(raw[1]), time(raw[4], raw[5], raw[6]), raw[7],
\* raw[8], raw[9] are evaluated in this order; the first failure is raised
from_bytes(r) ==
    IF Len(r) < 2 THEN Raise("IndexError")
    ELSE IF At(r, 1) \notin ScheduleAction THEN Raise("ValueError")
    ELSE IF Len(r) < 7 THEN Raise("IndexError")
    ELSE IF ~ValidTime(At(r, 4), At(r, 5), At(r, 6)) THEN Raise("ValueError")
    ELSE IF Len(r) < 10 THEN Raise("IndexError")
    ELSE Ret([id |-> At(r, 0), action |-> At(r, 1),
              hour |-> At(r, 4), minute |-> At(r, 5), second |-> At(r, 6),
              weekdays |-> [i \in Days |-> BitSet(At(r, 7), Shift(i))],
              enabled |-> (At(r, 8) = 1), schedule_id |-> At(r, 9)])

without_id_keep_slot(s) == SubSeq(to_bytes(s), 2, 8) \o <<to_bytes(s)[10]>>

\* raw[1:8] of the encoded schedule
without_id(s) == SubSeq(to_bytes(s), 2, 8)

encode_get_schedule(i) == <<CMD_SCHEDULE_GET, i>>

decode_get_schedule(response) == from_bytes(SubSeq(response, 3, Len(response)))

encode_get_schedule_info == <<CMD_SCHEDULE_INFO_GET, 0>>

encode_remove_schedule_with_id(s) ==
    <<CMD_SCHEDULE_REMOVE, 0>> \o SubSeq(to_bytes(s), 1, 7)

encode_remove_schedule(s) == <<CMD_SCHEDULE_REMOVE, 0>> \o without_id(s)

encode_add_schedule(s) == <<CMD_SCHEDULE_ADD>> \o to_bytes(s)

-----------------------------------------------------------------------------
(* Inputs of the codec behaviours *)

SampleIds == {0, 1, 255}
SampleTimes == {<<0, 0, 0>>, <<7, 30, 0>>, <<23, 59, 59>>}

MkSchedule(id, action, t, weekdays, enabled, schedule_id) ==
    [id |-> id, action |-> action, hour |-> t[1], minute |-> t[2],
     second |-> t[3], weekdays |-> weekdays, enabled |-> enabled,
     schedule_id |-> schedule_id]

\* valid Schedule objects: every weekday combination, both actions
Schedules ==
    {MkSchedule(id, a, t, w, e, sid) :
        id \in SampleIds, a \in ScheduleAction, t \in SampleTimes,
        w \in [Days -> BOOLEAN], e \in BOOLEAN, sid \in {0, 255}}

\* Schedule(time) with the constructor's defaults
DefaultSchedule ==
    MkSchedule(0, ACTION_ON, <<0, 0, 0>>, [i \in Days |-> TRUE], TRUE, 0)

StatusBytes == ZuliStatus \cup {1, 7, 255}

\* full-length responses of the four value decoders, valid and invalid
FullResponses ==
    UNION {{<<9, st, 7, 232, 2, 29, 5, 12, 30, 59>>,
            <<9, st, 7, 231, 2, 29, 5, 12, 30, 59>>,
            <<32, st, 1, 2, 0, 3, 4, 0, 5, 0, 6, 7>>,
            <<48, st, 3, 10>>,
            <<49, st, 1, 1, 0, 0, 7, 30, 0, 8, 1, 0>>,
            <<49, st, 2, 3, 0, 0, 7, 30, 0, 8, 1, 0>>,
            <<49, st, 3, 2, 0, 0, 24, 30, 0, 127, 0, 9>>} : st \in StatusBytes}

Prefixes(b) == {SubSeq(b, 1, k) : k \in 0..Len(b)}

Buffers == UNION {Prefixes(b) : b \in FullResponses}

Decoders == {"status", "clock", "power", "info", "schedule"}

ApplyDecoder(d, response) ==
    CASE d = "status" -> decode_response_status(response)
      [] d = "clock" -> decode_get_clock(response)
      [] d = "power" -> decode_read_power(response)
      [] d = "info" -> decode_get_schedule_info(response)
      [] d = "schedule" -> decode_get_schedule(response)

\* bytes a decoder reads: the highest index it touches, plus one
NeededLen(d) ==
    CASE d = "status" -> 2
      [] d = "clock" -> 10
      [] d = "power" -> 12
      [] d = "info" -> 4
      [] d = "schedule" -> 12

-----------------------------------------------------------------------------
(* smartplug.py: Python values the decoders of the command layer return *)

PyBool(b) == [bool |-> b]
PyNone == [none |-> TRUE]

\* an argument of type bytearray | None: <<>> is None, <<b>> is bytearray b
NoneResp == <<>>
Some(b) == <<b>>

decode_response_success(response) ==
    IF response = NoneResp THEN Ret(PyBool(FALSE))
    ELSE LET status == decode_response_status(response[1]) IN
         IF IsRaise(status) THEN status
         ELSE Ret(PyBool(is_success(status.val)))

decode_nullable_response(d, response) ==
    IF response = NoneResp THEN Ret(PyNone)
    ELSE ApplyDecoder(d, response[1])

\* the decode_response argument the public functions pass to _send_command(s)
DecodeResponse(d, response) ==
    IF d = "success" THEN decode_response_success(response)
    ELSE decode_nullable_response(d, response)

\* _send_command after its exchange: x is Raise(e) when write_gatt_char or
\* read_gatt_char raised, Ret(bytes) when read_gatt_char returned bytes
SendCommandResult(d, x) ==
    IF IsRaise(x) THEN x ELSE DecodeResponse(d, Some(x.val))

send_command_wrap_nocatch(d, r) == r

send_command_wrap_error(d, r) ==
    IF IsRaise(r) THEN Ret([error |-> r.exc]) ELSE r

\* try: return (client, result)  except Exception: decode_response(None)
send_command_wrap(d, r) ==
    IF IsRaise(r) THEN DecodeResponse(d, NoneResp) ELSE r

-----------------------------------------------------------------------------
(* Arguments of the encoders *)

MaxBrightness == 300

\* brightness arguments on both sides of 0..100 and of the byte range
Brightness == (0 - MaxBrightness)..MaxBrightness

\* dates of every weekday (2024-02-26 is a Monday, 2024-03-03 a Sunday),
\* a leap day, and years on both sides of a byte boundary
SampleDates ==
    {<<1, 1, 1>>, <<255, 12, 31>>, <<256, 1, 1>>, <<1999, 12, 31>>,
     <<2000, 1, 1>>, <<2024, 2, 26>>, <<2024, 2, 27>>, <<2024, 2, 28>>,
     <<2024, 2, 29>>, <<2024, 3, 1>>, <<2024, 3, 2>>, <<2024, 3, 3>>,
     <<9999, 12, 31>>}

\* datetime objects: the constructor admits valid dates and times only
DateTimes ==
    {[year |-> d[1], month |-> d[2], day |-> d[3],
      hour |-> t[1], minute |-> t[2], second |-> t[3]] :
        d \in {x \in SampleDates : ValidDate(x[1], x[2], x[3])},
        t \in SampleTimes}

SampleSlots == {0, 1, 2, 255}

\* the encoder that is called and its argument: a Schedule argument is in
\* sched, any other argument in inp
EncoderCall ==
    \/ /\ enc = "on" /\ inp \in Brightness /\ sched = DefaultSchedule
    \/ /\ enc \in {"off", "get_clock", "read_power", "get_schedule_info",
                    "reset"}
       /\ inp = 0 /\ sched = DefaultSchedule
    \/ /\ enc = "set_mode" /\ inp \in BOOLEAN /\ sched = DefaultSchedule
    \/ /\ enc = "set_clock" /\ inp \in DateTimes /\ sched = DefaultSchedule
    \/ /\ enc = "get_schedule" /\ inp \in SampleSlots
       /\ sched = DefaultSchedule
    \/ /\ enc \in {"add_schedule", "remove_schedule"}
       /\ inp = 0 /\ sched \in Schedules

ApplyEncoder(e, x, s) ==
    CASE e = "on" -> encode_on(x)
      [] e = "off" -> encode_off
      [] e = "set_mode" -> encode_set_mode(x)
      [] e = "set_clock" -> encode_set_clock(x)
      [] e = "get_clock" -> encode_get_clock
      [] e = "read_power" -> encode_read_power
      [] e = "add_schedule" -> encode_add_schedule(s)
      [] e = "get_schedule" -> encode_get_schedule(x)
      [] e = "get_schedule_info" -> encode_get_schedule_info
      [] e = "remove_schedule" -> encode_remove_schedule(s)
      [] e = "reset" -> encode_reset_plug

-----------------------------------------------------------------------------
(* Command-layer state that the codec behaviours leave alone *)

IdleCmd ==
    /\ clients = <<>> /\ dec = "success" /\ stored = <<>> /\ arg = 0
    /\ msg = "bytes"
    /\ pc = <<>> /\ ph = <<>> /\ slot = <<>> /\ num = <<>> /\ acc = <<>>
    /\ outcome = <<>> /\ cause = <<>> /\ completed = <<>> /\ yielded = <<>>
    /\ gen = "running" /\ log = <<>>

IdleCodec ==
    /\ sched = DefaultSchedule /\ raw = <<>> /\ back = Pending
    /\ buf = <<>> /\ which = "none" /\ res = Pending
    /\ enc = "none" /\ inp = 0 /\ packet = <<>>

(* Discovery state that the other behaviours leave alone *)
IdleDisc ==
    /\ devices = <<>> /\ made = <<>> /\ disc = "idle" /\ heard = 0

InitCodec ==
    /\ IdleCmd
    /\ IdleDisc
    /\ raw = <<>> /\ back = Pending /\ which = "none" /\ res = Pending
    /\ packet = <<>>
    /\ \/ /\ mode = "schedule" /\ sched \in Schedules /\ buf = <<>>
          /\ enc = "none" /\ inp = 0
       \/ /\ mode = "decode" /\ sched = DefaultSchedule /\ buf \in Buffers
          /\ enc = "none" /\ inp = 0
       \/ /\ mode = "encode" /\ buf = <<>>
          /\ EncoderCall

\* s.to_bytes()
ToBytes ==
    /\ mode = "schedule" /\ raw = <<>>
    /\ raw' = to_bytes(sched)
    /\ UNCHANGED <<mode, sched, back, buf, which, res>>
    /\ UNCHANGED <<enc, inp, packet>>
    /\ UNCHANGED cmdVars
    /\ UNCHANGED discVars

\* Schedule.from_bytes(raw)
FromBytesStep ==
    /\ mode = "schedule" /\ raw # <<>> /\ back = Pending
    /\ back' = from_bytes(raw)
    /\ UNCHANGED <<mode, sched, raw, buf, which, res>>
    /\ UNCHANGED <<enc, inp, packet>>
    /\ UNCHANGED cmdVars
    /\ UNCHANGED discVars

\* decode_X(buf)
Decode ==
    /\ mode = "decode" /\ which = "none"
    /\ \E d \in Decoders :
          /\ which' = d
          /\ res' = ApplyDecoder(d, buf)
    /\ UNCHANGED <<mode, sched, raw, back, buf>>
    /\ UNCHANGED <<enc, inp, packet>>
    /\ UNCHANGED cmdVars
    /\ UNCHANGED discVars

\* encode_X(argument)
Encode ==
    /\ mode = "encode" /\ packet = <<>>
    /\ packet' = ApplyEncoder(enc, inp, sched)
    /\ UNCHANGED <<mode, sched, raw, back, buf, which, res, enc, inp>>
    /\ UNCHANGED cmdVars
    /\ UNCHANGED discVars

NextCodec == ToBytes \/ FromBytesStep \/ Decode \/ Encode

SpecCodec == InitCodec /\ [][NextCodec]_vars

-----------------------------------------------------------------------------
(* C4: for every valid Schedule s, Schedule.from_bytes(s.to_bytes())     *)
(* returns a Schedule with the same id, action, time, weekdays, enabled  *)
(* flag and slot id as s.                                                *)
C4_RoundTrip ==
    (mode = "schedule" /\ back # Pending) => back = Ret(sched)

C4_Witness ==
    /\ mode = "schedule" /\ back = Ret(sched)
    /\ sched.action = ACTION_OFF /\ ~sched.enabled /\ sched.id = 255
    /\ sched.weekdays = [i \in Days |-> i \in {2, 6}]

C9_ShortBufferFails ==
    /\ (which \in {"clock", "power", "info", "schedule"}
        /\ Len(buf) < NeededLen(which)) => IsRaise(res)
    /\ (which = "schedule" /\ Len(buf) >= 4
        /\ At(buf, 3) \notin ScheduleAction) => IsRaise(res)

-----------------------------------------------------------------------------
(* The command layer: bleak clients, their plugs and the coroutines      *)

MaxList == 2
MaxSchedules == 2
MAX_SCHEDULES_REPORTED == 10

Clients == {1, 2}

ClientLists == UNION {[1..n -> Clients] : n \in 0..MaxList}

\* what a plug may hold: schedules whose slot order is not their id order
Stored(id) ==
    MkSchedule(id, IF id = 2 THEN ACTION_OFF ELSE ACTION_ON, <<7, 30, id>>,
               [i \in Days |-> i = id], TRUE, id)

\* the slot order of each plug: plug 1 holds ids 3, 1, 2 in that order
SlotOrder(c) ==
    IF c = 1 THEN <<Stored(3), Stored(1), Stored(2)>>
    ELSE <<Stored(1), Stored(2), Stored(3)>>

\* the plugs hold between 0 and MaxSchedules schedules each
Plugs ==
    {f \in [Clients -> UNION {{SubSeq(SlotOrder(c), 1, k) : k \in 0..MaxSchedules}
                                : c \in Clients}] :
        \A c \in Clients : f[c] = SubSeq(SlotOrder(c), 1, Len(f[c]))}

Tasks_every_client == 1..Len(clients)

\* the coroutines the operation runs: one per list entry, except that
\* remove_client_schedule runs a single _send_command on clients[0]
Tasks == IF mode = "remove" THEN {1} ELSE 1..Len(clients)

ClientOf(t) == IF mode = "remove" THEN clients[1] ELSE clients[t]

ScheduleSlots_from_zero(num_schedules) == [k \in 1..num_schedules |-> k - 1]

\* range(1, num_schedules + 1), as the sequence of the loop's values
ScheduleSlots(num_schedules) == [k \in 1..num_schedules |-> k]

Collect_front(list, schedule) ==
    IF schedule = PyNone THEN list ELSE <<schedule>> \o list

\* [schedule async for schedule in ... if schedule != None], one step of it
Collect(list, schedule) ==
    IF schedule = PyNone THEN list ELSE Append(list, schedule)

NumSchedules_one_without_info(schedule_info) ==
    IF schedule_info = PyNone THEN 1 ELSE schedule_info.num_schedules

\* schedule_info['num_schedules'] if schedule_info != None else 0
NumSchedules(schedule_info) ==
    IF schedule_info = PyNone THEN 0 ELSE schedule_info.num_schedules

\* the bytearray the public functions pass as encode_message
Message(d) == IF d = "success" THEN encode_on(0) ELSE encode_read_power

\* the packet of the exchange coroutine t is in
CurPacket(t) ==
    CASE ph[t] = "send" -> Message(dec)
      [] ph[t] = "info" -> encode_get_schedule_info
      [] ph[t] = "fetch" -> encode_get_schedule(ScheduleSlots(num[t])[slot[t]])
      [] ph[t] = "rfetch" -> encode_get_schedule(arg)
      [] ph[t] = "remove" -> encode_remove_schedule(acc[t][1])

\* what read_gatt_char may return after pkt was written to client c's plug
Replies(c, pkt) ==
    CASE pkt[1] = CMD_ON ->
            {<<CMD_ON, st>> : st \in ZuliStatus \cup {7}} \cup {<<CMD_ON>>}
      [] pkt[1] = CMD_POWER_READ ->
            {<<CMD_POWER_READ, STATUS_SUCCESS, 1, 2, 0, 3, 4, 0, 5, 0, 6, 7>>,
             <<CMD_POWER_READ, STATUS_BUSY>>}
      [] pkt[1] = CMD_SCHEDULE_INFO_GET ->
            {<<CMD_SCHEDULE_INFO_GET, STATUS_SUCCESS, Len(stored[c]),
               MAX_SCHEDULES_REPORTED>>,
             <<CMD_SCHEDULE_INFO_GET, STATUS_BUSY>>}
      [] pkt[1] = CMD_SCHEDULE_GET ->
            IF pkt[2] \in 1..Len(stored[c])
            THEN {<<CMD_SCHEDULE_GET, STATUS_SUCCESS>>
                      \o to_bytes(stored[c][pkt[2]]),
                  <<CMD_SCHEDULE_GET, STATUS_BUSY>>}
            ELSE {<<CMD_SCHEDULE_GET, STATUS_INVALID_PARAM>>,
                  <<CMD_SCHEDULE_GET, STATUS_INVALID_PARAM>>
                      \o to_bytes(DefaultSchedule)}
      [] pkt[1] = CMD_SCHEDULE_REMOVE ->
            {<<CMD_SCHEDULE_REMOVE, STATUS_SUCCESS>>,
             <<CMD_SCHEDULE_REMOVE, STATUS_BUSY>>,
             <<CMD_SCHEDULE_REMOVE, STATUS_INVALID_PARAM>>}

\* transport events: a packet handed to write_gatt_char, a response returned
\* by read_gatt_char, a raising write ("wfail") or read ("rfail")
WriteEvent(pkt) == [ev |-> "write", pkt |-> pkt]
ReadEvent(response) == [ev |-> "read", pkt |-> response]
FailEvent(what) == [ev |-> what, pkt |-> <<>>]

InitCmd(m) ==
    /\ mode = m
    /\ IdleCodec
    /\ IdleDisc
    /\ pc = [t \in 1..Len(clients) |-> "init"]
    /\ ph = [t \in 1..Len(clients) |-> "none"]
    /\ slot = [t \in 1..Len(clients) |-> 0]
    /\ num = [t \in 1..Len(clients) |-> 0]
    /\ acc = [t \in 1..Len(clients) |-> <<>>]
    /\ outcome = [t \in 1..Len(clients) |-> Pending]
    /\ cause = [t \in 1..Len(clients) |-> Pending]
    /\ completed = <<>>
    /\ yielded = <<>>
    /\ gen = IF Len(clients) = 0 THEN "exhausted" ELSE "running"
    /\ log = [t \in 1..Len(clients) |-> <<>>]

\* on / off / set_mode / sync_clock / add_schedule (decode_response_success)
\* and read_power (a nullable value decoder) over a list of clients;
\* encode_message is a bytearray or a callable whose result is None
InitSend ==
    /\ clients \in ClientLists
    /\ dec \in {"success", "power"}
    /\ stored = [c \in Clients |-> <<>>]
    /\ arg = 0
    /\ msg \in {"bytes", "none"}
    /\ InitCmd("send")

\* get_clients_schedules over a list of clients
InitSchedules ==
    /\ clients \in ClientLists
    /\ dec = "schedule"
    /\ stored \in Plugs
    /\ arg = 0
    /\ msg = "bytes"
    /\ InitCmd("schedules")

\* remove_client_schedule(clients, i) with a non-empty list
InitRemove ==
    /\ clients \in ClientLists /\ clients # <<>>
    /\ dec = "success"
    /\ stored \in Plugs
    /\ arg \in 1..(MaxSchedules + 1)
    /\ msg = "bytes"
    /\ InitCmd("remove")

\* coroutine t ends with outcome o and enters the completion queue
Finish(t, o) ==
    /\ pc' = [pc EXCEPT ![t] = "done"]
    /\ outcome' = [outcome EXCEPT ![t] = o]
    /\ completed' = Append(completed, t)
    /\ UNCHANGED <<ph, slot, num>>

\* coroutine t goes on to its next exchange: write_gatt_char is awaited
NextExchange(t, phase, i, n) ==
    /\ pc' = [pc EXCEPT ![t] = "write"]
    /\ ph' = [ph EXCEPT ![t] = phase]
    /\ slot' = [slot EXCEPT ![t] = i]
    /\ num' = [num EXCEPT ![t] = n]
    /\ UNCHANGED <<outcome, completed>>

message_is_none_never(m) == FALSE

\* message == None
message_is_none(m) == m = "none"

\* the first await of coroutine t: asyncio runs it up to write_gatt_char,
\* or to its end when there is no message to write
Start(t) ==
    /\ mode \in {"send", "schedules", "remove"}
    /\ t \in Tasks /\ pc[t] = "init"
    /\ LET phase == CASE mode = "send" -> "send"
                      [] mode = "schedules" -> "info"
                      [] mode = "remove" -> "rfetch"
           pkt == CASE mode = "send" -> Message(dec)
                    [] mode = "schedules" -> encode_get_schedule_info
                    [] mode = "remove" -> encode_get_schedule(arg)
       IN IF mode = "send" /\ message_is_none(msg)
          THEN /\ Finish(t, send_command_wrap(dec, DecodeResponse(dec, NoneResp)))
               /\ UNCHANGED log
          ELSE /\ NextExchange(t, phase, 0, 0)
               /\ log' = [log EXCEPT ![t] = Append(@, WriteEvent(pkt))]
    /\ UNCHANGED <<mode, clients, dec, stored, arg, msg, acc, cause, yielded, gen>>
    /\ UNCHANGED codecVars
    /\ UNCHANGED discVars

\* the code that runs after the exchange of coroutine t ended with x
\* (Raise(e) from the transport or Ret(bytes) from read_gatt_char), up to
\* the coroutine's next await or its end; ev is the transport event logged
Continue(t, x, ev) ==
    LET logged == Append(log[t], ev) IN
    /\ cause' = [cause EXCEPT ![t] = x]
    /\ CASE ph[t] = "send" ->
              /\ Finish(t, send_command_wrap(dec, SendCommandResult(dec, x)))
              /\ log' = [log EXCEPT ![t] = logged]
              /\ UNCHANGED acc
         [] ph[t] = "info" ->
              LET info == send_command_wrap("info", SendCommandResult("info", x))
                  n == NumSchedules(info.val)
              IN IF n >= 1
                 THEN /\ NextExchange(t, "fetch", 1, n)
                      /\ log' = [log EXCEPT ![t] =
                                    Append(logged,
                                           WriteEvent(encode_get_schedule(ScheduleSlots(n)[1])))]
                      /\ UNCHANGED acc
                 ELSE /\ Finish(t, Ret(<<>>))
                      /\ log' = [log EXCEPT ![t] = logged]
                      /\ UNCHANGED acc
         [] ph[t] = "fetch" ->
              LET s == SendCommandResult("schedule", x) IN
              IF IsRaise(s)
              THEN /\ Finish(t, s)
                   /\ log' = [log EXCEPT ![t] = logged]
                   /\ UNCHANGED acc
              ELSE LET list == Collect(acc[t], s.val)
                   IN /\ acc' = [acc EXCEPT ![t] = list]
                      /\ IF slot[t] < Len(ScheduleSlots(num[t]))
                         THEN /\ NextExchange(t, "fetch", slot[t] + 1, num[t])
                              /\ log' = [log EXCEPT ![t] =
                                    Append(logged,
                                           WriteEvent(encode_get_schedule(
                                               ScheduleSlots(num[t])[slot[t] + 1])))]
                         ELSE /\ Finish(t, Ret(list))
                              /\ log' = [log EXCEPT ![t] = logged]
         [] ph[t] = "rfetch" ->
              LET s == SendCommandResult("schedule", x) IN
              IF IsRaise(s)
              THEN /\ Finish(t, s)
                   /\ log' = [log EXCEPT ![t] = logged]
                   /\ UNCHANGED acc
              ELSE IF s.val = PyNone
              THEN /\ Finish(t, DecodeResponse("success", NoneResp))
                   /\ log' = [log EXCEPT ![t] = logged]
                   /\ UNCHANGED acc
              ELSE /\ acc' = [acc EXCEPT ![t] = <<s.val>>]
                   /\ NextExchange(t, "remove", 0, 0)
                   /\ log' = [log EXCEPT ![t] =
                                 Append(logged,
                                        WriteEvent(encode_remove_schedule(s.val)))]
         [] ph[t] = "remove" ->
              /\ Finish(t, SendCommandResult("success", x))
              /\ log' = [log EXCEPT ![t] = logged]
              /\ UNCHANGED acc

\* write_gatt_char(COMMAND_PIPE, response=True) returns: read_gatt_char is awaited
WriteOk(t) ==
    /\ t \in Tasks /\ pc[t] = "write"
    /\ pc' = [pc EXCEPT ![t] = "read"]
    /\ UNCHANGED <<mode, clients, dec, stored, arg, msg, ph, slot, num, acc, outcome,
                   cause, completed, yielded, gen, log>>
    /\ UNCHANGED codecVars
    /\ UNCHANGED discVars

\* write_gatt_char raises
WriteFail(t) ==
    /\ t \in Tasks /\ pc[t] = "write"
    /\ Continue(t, Raise("BleakError"), FailEvent("wfail"))
    /\ UNCHANGED <<mode, clients, dec, stored, arg, msg, yielded, gen>>
    /\ UNCHANGED codecVars
    /\ UNCHANGED discVars

\* read_gatt_char returns the plug's response
ReadOk(t) ==
    /\ t \in Tasks /\ pc[t] = "read"
    /\ \E response \in Replies(ClientOf(t), CurPacket(t)) :
          Continue(t, Ret(response), ReadEvent(response))
    /\ UNCHANGED <<mode, clients, dec, stored, arg, msg, yielded, gen>>
    /\ UNCHANGED codecVars
    /\ UNCHANGED discVars

\* read_gatt_char raises
ReadFail(t) ==
    /\ t \in Tasks /\ pc[t] = "read"
    /\ Continue(t, Raise("BleakError"), FailEvent("rfail"))
    /\ UNCHANGED <<mode, clients, dec, stored, arg, msg, yielded, gen>>
    /\ UNCHANGED codecVars
    /\ UNCHANGED discVars

as_completed_newest_first == completed[Len(completed) - Len(yielded)]

\* the coroutine whose result asyncio.as_completed hands out next: the
\* earliest finished one that was not handed out yet
as_completed_next == completed[Len(yielded) + 1]

\* for result in asyncio.as_completed(...): yield await result
\* (remove_client_schedule: yield await _send_command(clients[0], ...), a
\* bare result and no tuple: its client field is 0, which is no client)
Yield ==
    /\ mode \in {"send", "schedules", "remove"}
    /\ gen = "running"
    /\ Len(yielded) < Len(completed)
    /\ LET t == as_completed_next
           o == outcome[t]
       IN IF IsRaise(o)
          THEN /\ gen' = "raised"
               /\ UNCHANGED yielded
          ELSE /\ yielded' = Append(yielded,
                      [client |-> IF mode = "remove" THEN 0 ELSE ClientOf(t),
                       val |-> o.val])
               /\ gen' = IF Len(yielded) + 1 = Cardinality(Tasks)
                         THEN "exhausted" ELSE "running"
    /\ UNCHANGED <<mode, clients, dec, stored, arg, msg, pc, ph, slot, num, acc,
                   outcome, cause, completed, log>>
    /\ UNCHANGED codecVars
    /\ UNCHANGED discVars

NextCmd ==
    \/ \E t \in 1..MaxList : Start(t)
    \/ \E t \in 1..MaxList : WriteOk(t)
    \/ \E t \in 1..MaxList : WriteFail(t)
    \/ \E t \in 1..MaxList : ReadOk(t)
    \/ \E t \in 1..MaxList : ReadFail(t)
    \/ Yield

\* the consumer stops iterating after it took a result and before the
\* generator is exhausted: the generator is closed at its yield, which
\* ends the loop over as_completed and touches no task
Abandon ==
    /\ mode = "send"
    /\ gen = "running"
    /\ Len(yielded) >= 1 /\ Len(yielded) < Cardinality(Tasks)
    /\ gen' = "closed"
    /\ UNCHANGED <<mode, clients, dec, stored, arg, msg, pc, ph, slot, num, acc,
                   outcome, cause, completed, yielded, log>>
    /\ UNCHANGED codecVars
    /\ UNCHANGED discVars

NextAbandon == NextCmd \/ Abandon

\* the steps that wait for no peripheral: a coroutine running up to its
\* first await, and the generator handing out a finished result; a
\* coroutine inside await write_gatt_char or await read_gatt_char has no
\* other continuation than the return or the exception of that call
Unanswered == (\E t \in 1..MaxList : Start(t)) \/ Yield

SpecSend == InitSend /\ [][NextCmd]_vars
SpecAbandon == InitSend /\ [][NextAbandon]_vars
SpecSchedules == InitSchedules /\ [][NextCmd]_vars
SpecRemove == InitRemove /\ [][NextCmd]_vars

-----------------------------------------------------------------------------
(* __main__.py: discover(), the background task that connects to every  *)
(* peripheral it hears advertising                                       *)

MaxAdverts == 4

Addresses == {1, 2}

\* client.is_connected of the client held for address a
is_connected(a) == made[devices[a]].state = "connected"

should_connect_always(a) == TRUE

\* device.address not in devices or not devices[device.address].is_connected
\* (devices[a] = 0: the dictionary has no entry for a)
should_connect(a) == devices[a] = 0 \/ ~is_connected(a)

try_connect_nocatch(r) == r

\* try: await client.connect() / except Exception: pass
\* r is the outcome of client.connect(); CancelledError is no Exception
try_connect(r) ==
    IF IsRaise(r) /\ r.exc # "CancelledError" THEN Ret(PyNone)
    ELSE IF IsRaise(r) THEN r
    ELSE Ret(PyNone)

InitDiscover ==
    /\ mode = "discover"
    /\ IdleCodec
    /\ IdleCmd
    /\ devices = [a \in Addresses |-> 0]
    /\ made = <<>>
    /\ disc = "scanning"
    /\ heard = 0

\* one round of the loop over scanner.advertisement_data(): an
\* advertisement of address a arrives; prev records what the dictionary
\* held for a when the new client was made (history)
Advertise(a) ==
    /\ mode = "discover" /\ disc = "scanning"
    /\ heard < MaxAdverts
    /\ heard' = heard + 1
    /\ IF should_connect(a)
       THEN /\ made' = Append(made,
                   [address |-> a, state |-> "connecting", task |-> Pending,
                    prev |-> IF devices[a] = 0 THEN "none"
                             ELSE made[devices[a]].state,
                    disconnects |-> 0])
            /\ devices' = [devices EXCEPT ![a] = Len(made) + 1]
       ELSE UNCHANGED <<made, devices>>
    /\ UNCHANGED <<mode, disc>>
    /\ UNCHANGED codecVars
    /\ UNCHANGED cmdVars

\* the try_connect task of client k ends with outcome o; an exception
\* leaving a task of the TaskGroup cancels the group's other tasks and is
\* raised out of discover()
EndConnect(k, state, o) ==
    /\ made' = [j \in 1..Len(made) |->
                  IF j = k THEN [made[j] EXCEPT !.state = state, !.task = o]
                  ELSE IF IsRaise(o) /\ made[j].state = "connecting"
                  THEN [made[j] EXCEPT !.state = "failed",
                                       !.task = Raise("CancelledError")]
                  ELSE made[j]]
    /\ disc' = IF IsRaise(o) THEN "raised" ELSE disc

\* client.connect() of client k returns
ConnectOk(k) ==
    /\ mode = "discover" /\ disc = "scanning"
    /\ k \in 1..Len(made) /\ made[k].state = "connecting"
    /\ EndConnect(k, "connected", try_connect(Ret(PyNone)))
    /\ UNCHANGED <<mode, devices, heard>>
    /\ UNCHANGED codecVars
    /\ UNCHANGED cmdVars

\* client.connect() of client k raises
ConnectFail(k) ==
    /\ mode = "discover" /\ disc = "scanning"
    /\ k \in 1..Len(made) /\ made[k].state = "connecting"
    /\ EndConnect(k, "failed", try_connect(Raise("BleakError")))
    /\ UNCHANGED <<mode, devices, heard>>
    /\ UNCHANGED codecVars
    /\ UNCHANGED cmdVars

\* the link of the connected client k is lost: is_connected turns False
LinkLost(k) ==
    /\ mode = "discover"
    /\ k \in 1..Len(made) /\ made[k].state = "connected"
    /\ made' = [made EXCEPT ![k].state = "lost"]
    /\ UNCHANGED <<mode, devices, disc, heard>>
    /\ UNCHANGED codecVars
    /\ UNCHANGED cmdVars

NextDiscover ==
    \/ \E a \in Addresses : Advertise(a)
    \/ \E k \in 1..MaxAdverts : ConnectOk(k)
    \/ \E k \in 1..MaxAdverts : ConnectFail(k)
    \/ \E k \in 1..MaxAdverts : LinkLost(k)

SpecDiscover == InitDiscover /\ [][NextDiscover]_vars

\* devices.values(): the clients the dictionary holds
DeviceValues == {devices[a] : a \in Addresses} \ {0}

TaskGroup_exit_leaves_tasks(m) == m

\* async with asyncio.TaskGroup() left by CancelledError: the group
\* cancels every task that has not ended and waits for it; try_connect
\* does not catch CancelledError
TaskGroup_exit(m) ==
    [j \in 1..Len(m) |->
        IF m[j].state = "connecting"
        THEN [m[j] EXCEPT !.state = "cancelled",
                          !.task = try_connect(Raise("CancelledError"))]
        ELSE m[j]]

\* finally: discovery_task.cancel(), then main waits in
\* await discovery_task
Cancel ==
    /\ mode = "discover" /\ disc = "scanning"
    /\ disc' = "cancelling"
    /\ UNCHANGED <<mode, devices, made, heard>>
    /\ UNCHANGED codecVars
    /\ UNCHANGED cmdVars

\* discover() is resumed with CancelledError: the TaskGroup and the
\* scanner are left, except asyncio.CancelledError: return
DiscoverCancelled ==
    /\ mode = "discover" /\ disc = "cancelling"
    /\ made' = TaskGroup_exit(made)
    /\ disc' = "returned"
    /\ UNCHANGED <<mode, devices, heard>>
    /\ UNCHANGED codecVars
    /\ UNCHANGED cmdVars

\* await discovery_task has returned:
\* asyncio.gather(*[client.disconnect() for client in devices.values()])
Disconnect ==
    /\ mode = "discover" /\ disc = "returned"
    /\ made' = [j \in 1..Len(made) |->
                  IF j \in DeviceValues
                  THEN [made[j] EXCEPT !.disconnects = @ + 1]
                  ELSE made[j]]
    /\ disc' = "closed"
    /\ UNCHANGED <<mode, devices, heard>>
    /\ UNCHANGED codecVars
    /\ UNCHANGED cmdVars

NextShutdown ==
    \/ NextDiscover
    \/ Cancel
    \/ DiscoverCancelled
    \/ Disconnect

SpecShutdown == InitDiscover /\ [][NextShutdown]_vars

-----------------------------------------------------------------------------
(* Helpers of the claims about the command layer *)

Done(t) == t \in Tasks /\ pc[t] = "done"

\* coroutines with a write or read pending on client c's command pipe
InFlight(c) == {t \in Tasks : ClientOf(t) = c /\ pc[t] \in {"write", "read"}}

\* the last exchange of t ended with a response carrying status st
GotStatus(t, st) ==
    /\ IsRet(cause[t]) /\ Len(cause[t].val) >= 2 /\ At(cause[t].val, 1) = st

\* a transport call (write_gatt_char or read_gatt_char) of t raised
TransportFailed(t) == IsRaise(cause[t])

Writes(t) == SelectSeq(log[t], LAMBDA e : e.ev = "write")

\* the slot indices of the schedule fetches t has written, in order
FetchSlots(t) ==
    LET w == SelectSeq(log[t], LAMBDA e : e.ev = "write"
                                         /\ e.pkt[1] = CMD_SCHEDULE_GET)
    IN [k \in 1..Len(w) |-> w[k].pkt[2]]

\* the plug answered the schedule-info request of t with its count
Reported(t) ==
    /\ Len(log[t]) >= 2 /\ log[t][2].ev = "read" /\ Len(log[t][2].pkt) >= 4

ReportedCount(t) == At(log[t][2].pkt, 2)

CountVal(v) == Cardinality({k \in 1..Len(yielded) : yielded[k].val = v})

(* C1: two concurrent _send_command calls against the same client are    *)
(* serialized: at every instant at most one write/read exchange is       *)
(* mid-flight per client.                                                *)
C1_Serialized ==
    mode = "send" => \A c \in Clients : Cardinality(InFlight(c)) <= 1

(* C2: for any list of N clients and any subset of them whose write or   *)
(* read raises, _send_commands yields exactly N results, one per list    *)
(* entry, and no exception of a per-client coroutine propagates out of   *)
(* the generator or keeps the other results from being yielded.          *)
C2_OneResultEach ==
    mode = "send" =>
        /\ gen # "raised"
        /\ \A t \in Tasks : Done(t) => IsRet(outcome[t])
        /\ Len(yielded) <= Len(clients)
        /\ Len(yielded) < Len(completed) => gen = "running"
        /\ gen = "exhausted" <=> Len(yielded) = Len(clients)
        /\ gen = "exhausted" =>
              \A c \in Clients :
                 Cardinality({k \in 1..Len(yielded) : yielded[k].client = c})
                    = Cardinality({t \in 1..Len(clients) : clients[t] = c})

C2_Witness ==
    /\ mode = "send" /\ gen = "exhausted" /\ Len(clients) = MaxList
    /\ clients[1] # clients[2]
    /\ TransportFailed(1) /\ ~TransportFailed(2)

C5_NoWriteBeyondLast ==
    (mode = "remove" /\ arg > Len(stored[clients[1]])) =>
        /\ Writes(1) = <<>>
        /\ Done(1) => outcome[1] = Ret(PyBool(FALSE))
        /\ gen # "raised"

C10_Original ==
    (mode = "send" /\ dec = "success") =>
        \A t, u \in Tasks :
            (/\ Done(t) /\ Done(u) /\ GotStatus(t, STATUS_BUSY)
             /\ \/ TransportFailed(u)
                \/ \E st \in ZuliStatus \ {STATUS_BUSY} : GotStatus(u, st))
                => /\ IsRet(outcome[t])
                   /\ outcome[t] # outcome[u]

(* C10 amended: a response whose status is Busy is returned by           *)
(* _send_command as the value False, not thrown.  False differs from the *)
(* True of Success and AlreadySet and from the exception _send_command   *)
(* raises on a transport failure; it is the same value as for            *)
(* InvalidParam and BadLength and, through _send_commands, as for a      *)
(* transport failure.                                                    *)
C10_BusyIsFalse ==
    (mode = "send" /\ dec = "success") =>
        \A t, u \in Tasks :
            (Done(t) /\ Done(u) /\ GotStatus(t, STATUS_BUSY)) =>
                /\ SendCommandResult(dec, cause[t]) = Ret(PyBool(FALSE))
                /\ outcome[t] = Ret(PyBool(FALSE))
                /\ (GotStatus(u, STATUS_SUCCESS) \/ GotStatus(u, STATUS_ALREADY_SET))
                      => outcome[u] # outcome[t]
                /\ (GotStatus(u, STATUS_INVALID_PARAM) \/ GotStatus(u, STATUS_BAD_LENGTH))
                      => outcome[u] = outcome[t]
                /\ TransportFailed(u) =>
                      /\ IsRaise(SendCommandResult(dec, cause[u]))
                      /\ outcome[u] = outcome[t]

C10_Witness ==
    /\ mode = "send" /\ dec = "success" /\ Len(clients) = MaxList
    /\ Done(1) /\ Done(2)
    /\ GotStatus(1, STATUS_BUSY) /\ GotStatus(2, STATUS_INVALID_PARAM)
    /\ outcome[1] = outcome[2]

-----------------------------------------------------------------------------
(* C11: fan-out results are yielded in completion order: the k-th result *)
(* yielded is the result of the k-th coroutine to finish, whatever the   *)
(* order of the clients in the list, and a finished coroutine's result   *)
(* can be yielded while other coroutines are still pending.              *)
C11_CompletionOrder ==
    mode = "send" =>
        /\ \A k \in 1..Len(yielded) :
              /\ k <= Len(completed)
              /\ yielded[k].client = ClientOf(completed[k])
              /\ yielded[k].val = outcome[completed[k]].val
        /\ (gen = "running" /\ Len(yielded) < Len(completed)) => ENABLED Yield

\* the second client of the list finished first and its result was yielded
\* while the first client's read is still pending
C11_Witness ==
    /\ mode = "send" /\ Len(clients) = 2 /\ clients[1] # clients[2]
    /\ completed = <<2>> /\ pc[1] = "read"
    /\ Len(yielded) = 1 /\ yielded[1].client = clients[2]

(* C12: once the consumer has abandoned the fan-out before it was        *)
(* exhausted, every coroutine still pending is cancelled: no further     *)
(* write or read happens on the transport.                               *)
C12_PendingCancelled == [][gen = "closed" => log' = log]_vars

(* C13: every call terminates even when the peripheral never answers the *)
(* write or the read: as long as some call has not terminated, a step    *)
(* that needs no answer of a peripheral (the expiry of the session's own *)
(* bounded wait among them) can be taken.                                *)
C13_BoundedWait ==
    mode = "send" => ((\A t \in Tasks : Done(t)) \/ ENABLED Unanswered)

-----------------------------------------------------------------------------
(* Helpers of the claims about discovery *)

\* the clients made for address a: one connection attempt each
Attempts(a) == {k \in 1..Len(made) : made[k].address = a}

FailedAttempts(a) == {k \in Attempts(a) : made[k].state = "failed"}

-----------------------------------------------------------------------------
(* C15: for every integer brightness b, encode_on(b) equals              *)
(* encode_on(min(100, max(0, b))): a value below 0 encodes as 0, a value *)
(* above 100 as 100, and byte 5 of the packet is always in 0..100.       *)
C15_Clamped ==
    (mode = "encode" /\ enc = "on" /\ packet # <<>>) =>
        /\ packet = <<23, 0, 0, 0, 0,
                      IF inp < 0 THEN 0 ELSE IF inp > 100 THEN 100 ELSE inp,
                      0, 0, 0>>
        /\ packet = encode_on(Min(100, Max(0, inp)))
        /\ At(packet, 5) \in 0..100

\* a brightness beyond the byte range was encoded as 100
C15_Witness ==
    /\ mode = "encode" /\ enc = "on" /\ inp > 255
    /\ packet # <<>> /\ At(packet, 5) = 100

(* C16: in Schedule.to_bytes the weekday byte (byte 7) has bit           *)
(* (i+1) mod 7 set exactly when weekdays[i] is true (Monday = 0 ..       *)
(* Sunday = 6) and bit 7 clear; a schedule with only Wednesday true,     *)
(* time 07:30:00, action On, enabled, id 0 and slot id 0 encodes to      *)
(* [0, 1, 0, 0, 7, 30, 0, 0x08, 1, 0].                                   *)
C16_WeekdayByte ==
    (mode = "schedule" /\ raw # <<>>) =>
        /\ \A i \in 0..6 :
              BitSet(At(raw, 7), (i + 1) % 7) <=> sched.weekdays[i]
        /\ ~BitSet(At(raw, 7), 7)
        /\ At(raw, 7) \in 0..127
        /\ sched = MkSchedule(0, 1, <<7, 30, 0>>, [i \in 0..6 |-> i = 2],
                              TRUE, 0)
              => raw = <<0, 1, 0, 0, 7, 30, 0, 8, 1, 0>>

C16_Witness ==
    /\ mode = "schedule"
    /\ sched = MkSchedule(0, 1, <<7, 30, 0>>, [i \in 0..6 |-> i = 2], TRUE, 0)
    /\ raw = <<0, 1, 0, 0, 7, 30, 0, 8, 1, 0>>

(* C17: ZuliStatus.is_success is true for Success (0) and AlreadySet (9) *)
(* and false for Busy (5), InvalidParam (6) and BadLength (15): the      *)
(* status decoder turns a response with such a status into that value.   *)
C17_IsSuccess ==
    (mode = "send" /\ dec = "success") =>
        \A t \in Tasks :
            Done(t) =>
                /\ (GotStatus(t, 0) \/ GotStatus(t, 9))
                      => outcome[t] = Ret(PyBool(TRUE))
                /\ (GotStatus(t, 5) \/ GotStatus(t, 6) \/ GotStatus(t, 15))
                      => outcome[t] = Ret(PyBool(FALSE))

\* one command answered AlreadySet and one answered BadLength
C17_Witness ==
    /\ mode = "send" /\ dec = "success" /\ Len(clients) = 2
    /\ Done(1) /\ Done(2)
    /\ GotStatus(1, 9) /\ outcome[1] = Ret(PyBool(TRUE))
    /\ GotStatus(2, 15) /\ outcome[2] = Ret(PyBool(FALSE))

(* C18: encode_set_clock writes as its weekday byte ((w+1) mod 7) + 1,   *)
(* w being the weekday of the datetime (Monday = 0 .. Sunday = 6): the   *)
(* byte is in 1..7 with Sunday = 1, Monday = 2, ..., Saturday = 7; the   *)
(* year occupies two big-endian bytes before month and day.              *)
C18_ClockPacket ==
    (mode = "encode" /\ enc = "set_clock" /\ packet # <<>>) =>
        /\ Len(packet) = 9
        /\ At(packet, 5) = ((weekday(inp) + 1) % 7) + 1
        /\ At(packet, 5) \in 1..7
        /\ At(packet, 1) \in 0..255 /\ At(packet, 2) \in 0..255
        /\ At(packet, 1) * 256 + At(packet, 2) = inp.year
        /\ At(packet, 3) = inp.month /\ At(packet, 4) = inp.day
        /\ (inp.year = 2024 /\ inp.month = 3 /\ inp.day = 3)
              => At(packet, 5) = 1
        /\ (inp.year = 2024 /\ inp.month = 2 /\ inp.day = 26)
              => At(packet, 5) = 2
        /\ (inp.year = 2024 /\ inp.month = 3 /\ inp.day = 2)
              => At(packet, 5) = 7

\* Sunday 2024-03-03 was encoded with weekday byte 1, year bytes 7 and 232
C18_Witness ==
    /\ mode = "encode" /\ enc = "set_clock"
    /\ inp.year = 2024 /\ inp.month = 3 /\ inp.day = 3
    /\ packet # <<>> /\ SubSeq(packet, 2, 6) = <<7, 232, 3, 3, 1>>

C20_FirstByteOpcode ==
    (mode = "encode" /\ packet # <<>>) =>
        /\ At(packet, 0) \in ZuliCommand
        /\ At(packet, 0) =
              CASE enc = "on" -> 23
                [] enc = "off" -> 24
                [] enc = "set_mode" -> 16
                [] enc = "set_clock" -> 8
                [] enc = "get_clock" -> 9
                [] enc = "read_power" -> 32
                [] enc = "add_schedule" -> 51
                [] enc = "get_schedule" -> 49
                [] enc = "get_schedule_info" -> 48
                [] enc = "remove_schedule" -> 52
                [] enc = "reset" -> 2

C20_Witness ==
    /\ mode = "encode" /\ enc = "off" /\ packet = <<24, 0, 0, 0>>


-----------------------------------------------------------------------------
(* C21: the session lock is held through the whole write/read exchange   *)
(* and released on every exit path: while one call's exchange on a       *)
(* client is pending, no other call has an exchange pending on that      *)
(* client, in the aggregation of schedules as well.                      *)
C21_LockHeld ==
    mode = "schedules" =>
        \A t, u \in Tasks :
            (t # u /\ ClientOf(t) = ClientOf(u) /\ pc[t] \in {"write", "read"})
                => pc[u] \in {"init", "done"}

(* C22: calls received by one session are executed in strict FIFO order: *)
(* while the exchange of a call on a client is not complete, the write   *)
(* of a call received later by that client is not issued.                *)
C22_Fifo ==
    [][\A t, u \in Tasks :
          (/\ mode = "send" /\ t # u /\ ClientOf(t) = ClientOf(u)
           /\ pc[t] \in {"write", "read"} /\ pc[u] = "init")
              => pc'[u] = "init"]_vars


(* C23: get_clients_schedules yields one (client, schedule list) result  *)
(* per list entry; a transport failure in any exchange of one client's   *)
(* aggregation (the info request or a slot fetch) does not raise out of  *)
(* the generator: the aggregation it hit still returns a result.         *)
C23_FailureIsolated ==
    mode = "schedules" =>
        /\ \A t \in Tasks :
              (Done(t) /\ TransportFailed(t)) => IsRet(outcome[t])
        /\ gen = "raised" => ~TransportFailed(completed[Len(yielded) + 1])


(* C24: remove_client_schedule first fetches the schedule at the given   *)
(* index and writes a remove packet only after the read of that fetch    *)
(* completed; the payload of the remove packet is bytes 1..7 of exactly  *)
(* the schedule the fetch returned, and at most one remove packet is     *)
(* written per call.                                                     *)
C24_FetchThenRemove ==
    mode = "remove" =>
        /\ Len(log[1]) >= 1 => log[1][1] = WriteEvent(<<49, arg>>)
        /\ \A k \in 1..Len(log[1]) :
              (log[1][k].ev = "write" /\ log[1][k].pkt[1] = 52) =>
                  /\ k = 3
                  /\ log[1][2].ev = "read" /\ Len(log[1][2].pkt) = 12
                  /\ log[1][3].pkt = <<52, 0>> \o SubSeq(log[1][2].pkt, 4, 10)
        /\ Len(log[1]) <= 4

\* the schedule in slot 2 of plug 1 (id 1) was fetched and then removed
C24_Witness ==
    /\ mode = "remove" /\ clients[1] = 1 /\ arg = 2 /\ Done(1)
    /\ Len(log[1]) = 4
    /\ log[1][2] = ReadEvent(<<49, 0>> \o to_bytes(Stored(1)))
    /\ log[1][3] = WriteEvent(<<52, 0, 1, 0, 0, 7, 30, 1, 4>>)
    /\ outcome[1] = Ret(PyBool(TRUE))


(* C25: without_id returns bytes 1..7 of the 10-byte encoded schedule,   *)
(* dropping the id and the slot id; encode_remove_schedule(s) is [52, 0] *)
(* followed by those bytes; two schedules that differ only in id and     *)
(* slot id produce the same remove packet.                               *)
C25_RemovePacket ==
    (mode = "encode" /\ enc = "remove_schedule" /\ packet # <<>>) =>
        /\ Len(packet) = 9
        /\ packet = <<52, 0>> \o SubSeq(to_bytes(sched), 2, 8)
        /\ SubSeq(packet, 1, 8) = <<52, 0, sched.action, 0, 0, sched.hour,
                                    sched.minute, sched.second>>
        /\ packet[9] \in 0..127
        /\ \A i \in 0..6 : BitSet(packet[9], (i + 1) % 7) <=> sched.weekdays[i]
        /\ \A id \in SampleIds, sid \in {0, 255} :
              packet = encode_remove_schedule(
                           [sched EXCEPT !.id = id, !.schedule_id = sid])

\* a schedule with id 255 and slot id 255 gives the packet of the same
\* schedule with id 0 and slot id 0
C25_Witness ==
    /\ mode = "encode" /\ enc = "remove_schedule"
    /\ sched = MkSchedule(255, 1, <<7, 30, 0>>, [i \in 0..6 |-> i = 2],
                          TRUE, 255)
    /\ packet = <<52, 0, 1, 0, 0, 7, 30, 0, 8>>


(* C26: a client that reports connected is reused: in a step taken while *)
(* the client held for an address is connected, that client stays the    *)
(* held one and no client is made (no connect is started) for the        *)
(* address; the held client changes only when the address was unknown or *)
(* its held client was not connected.                                    *)
C26_Reuse ==
    [][\A a \in Addresses :
          /\ (mode = "discover" /\ devices[a] # 0
              /\ made[devices[a]].state = "connected")
                => /\ devices'[a] = devices[a]
                   /\ {k \in 1..Len(made') : made'[k].address = a} = Attempts(a)
          /\ (mode = "discover" /\ devices'[a] # devices[a])
                => \/ devices[a] = 0
                   \/ made[devices[a]].state # "connected"]_vars

\* an advertisement of an address whose client is connected was heard and
\* no client was made for it
C26_Witness ==
    /\ mode = "discover" /\ heard = 2 /\ Len(made) = 1
    /\ made[1].state = "connected" /\ devices[made[1].address] = 1


(* C27: within one _send_command call the transport operations are a     *)
(* write followed by a read: a read is pending only after the call's     *)
(* write returned, a call whose write raises issues no read, and a call  *)
(* whose message is None issues neither and returns                      *)
(* decode_response(None).                                                *)
C27_WriteThenRead ==
    mode = "send" =>
        \A t \in Tasks :
            /\ Len(log[t]) <= 2
            /\ Len(log[t]) >= 1 => log[t][1].ev = "write"
            /\ pc[t] = "init" => log[t] = <<>>
            /\ pc[t] \in {"write", "read"} => Len(log[t]) = 1
            /\ Len(log[t]) = 2 =>
                  /\ Done(t)
                  /\ log[t][2].ev \in {"wfail", "read", "rfail"}
            /\ msg = "none" =>
                  /\ log[t] = <<>>
                  /\ pc[t] \in {"init", "done"}
                  /\ Done(t) => outcome[t] = Ret(IF dec = "success"
                                                 THEN PyBool(FALSE) ELSE PyNone)

\* the write of the first call raised and no read followed; the second
\* call wrote and then read
C27_Witness ==
    /\ mode = "send" /\ Len(clients) = 2 /\ Done(1) /\ Done(2)
    /\ Len(log[1]) = 2 /\ log[1][1].ev = "write" /\ log[1][2].ev = "wfail"
    /\ Len(log[2]) = 2 /\ log[2][1].ev = "write" /\ log[2][2].ev = "read"


(* C28: when the schedule-info exchange of get_client_schedules fails or *)
(* yields no info, the count is taken as 0: no slot fetch is issued and  *)
(* the schedule list is empty, the same result as for a plug that        *)
(* reports num_schedules = 0.                                            *)
C28_NoInfoIsZero ==
    mode = "schedules" =>
        \A t \in Tasks :
            (Len(log[t]) >= 2 /\ (~Reported(t) \/ ReportedCount(t) = 0)) =>
                /\ Len(log[t]) = 2
                /\ FetchSlots(t) = <<>>
                /\ Done(t)
                /\ outcome[t] = Ret(<<>>)

\* the info read of a plug that holds schedules raised: the aggregation
\* returned the empty list after that one exchange
C28_Witness ==
    /\ mode = "schedules"
    /\ \E t \in Tasks :
          /\ stored[ClientOf(t)] # <<>>
          /\ Len(log[t]) = 2 /\ log[t][2].ev = "rfail"
          /\ Done(t) /\ outcome[t] = Ret(<<>>)


(* C29 as stated: remove_client_schedule on a list of several clients    *)
(* touches the transport of the first client only and yields exactly one *)
(* result: the generator never ends without it.                          *)
C29_Original ==
    mode = "remove" =>
        /\ \A t \in 2..Len(clients) : log[t] = <<>>
        /\ Len(yielded) <= 1
        /\ gen # "raised"

(* C29 amended: remove_client_schedule on a list of several clients      *)
(* performs writes and reads only in its one call on the first client;   *)
(* no call is started for another list entry; it yields at most one      *)
(* result, exactly one when the generator is exhausted, and none when    *)
(* the call raised, which ends the generator with that exception.        *)
C29_OnlyFirstClient ==
    mode = "remove" =>
        /\ \A t \in 2..Len(clients) : log[t] = <<>> /\ pc[t] = "init"
        /\ Len(yielded) <= 1
        /\ gen = "exhausted" <=> Len(yielded) = 1
        /\ gen = "raised" =>
              /\ Done(1) /\ IsRaise(outcome[1])
              /\ yielded = <<>>
        /\ (Done(1) /\ IsRet(outcome[1]) /\ yielded = <<>>) => ENABLED Yield

\* two different clients: the schedule was fetched and removed on the
\* first one, nothing happened for the second one, one result was yielded
C29_Witness ==
    /\ mode = "remove" /\ Len(clients) = 2 /\ clients[1] # clients[2]
    /\ gen = "exhausted" /\ Len(yielded) = 1
    /\ Len(log[1]) = 4 /\ log[2] = <<>>


(* C30: on shutdown no disconnect is issued before the discovery task   *)
(* has been cancelled and has returned; from then on no connect attempt *)
(* is pending (each has ended or was cancelled); once the disconnects   *)
(* are issued, every client the registry holds has had disconnect       *)
(* called exactly once, connected or not.                               *)
C30_Shutdown ==
    mode = "discover" =>
        /\ disc # "closed" =>
              \A k \in 1..Len(made) : made[k].disconnects = 0
        /\ disc \in {"returned", "closed"} =>
              \A k \in 1..Len(made) :
                  /\ made[k].state # "connecting"
                  /\ made[k].task # Pending
        /\ disc = "closed" =>
              \A k \in DeviceValues : made[k].disconnects = 1

\* after shutdown: one held client had connected, another one's connect
\* was cancelled by the shutdown, and disconnect was called on both
C30_Witness ==
    /\ mode = "discover" /\ disc = "closed"
    /\ \E k, j \in DeviceValues :
          /\ made[k].state = "connected" /\ made[k].disconnects = 1
          /\ made[j].state = "cancelled" /\ made[j].disconnects = 1
          /\ made[j].task = Raise("CancelledError")


-----------------------------------------------------------------------------
(* filter_devices (src/src/zuli/__main__.py): the choice of the clients a *)
(* command is sent to.  An address is a string, modelled as a sequence of *)
(* characters.  The dictionary is modelled as the sequence of its items   *)
(* in insertion order, which is the order Python iterates a dict in; an   *)
(* item is [address |-> key, client |-> value] and the value of the i-th  *)
(* item is client i.  inp holds args.devices, res the returned list.      *)
(* A key may be one character longer than the longest prefix typed, so    *)
(* that a prefix is the whole key, a proper part of it, or no part.       *)

MaxPrefixLen == 1

MaxDevices == 2

MaxPrefixes == 2

Chars == {"A", "B"}

\* strings of length lo..hi
Strings(lo, hi) == UNION {[1..n -> Chars] : n \in lo..hi}

\* dictionaries: items with distinct keys, the i-th value being client i
Dicts ==
    {d \in UNION {[1..n -> [address : Strings(1, MaxPrefixLen + 1), client : 1..n]]
                     : n \in 0..MaxDevices} :
        /\ \A i \in 1..Len(d) : d[i].client = i
        /\ \A i, j \in 1..Len(d) : i # j => d[i].address # d[j].address}

\* args.devices: the addresses or prefixes typed after the command
AddressLists ==
    UNION {[1..n -> Strings(0, MaxPrefixLen)] : n \in 0..MaxPrefixes}

\* k.startswith(addr)
startswith(k, addr) ==
    /\ Len(addr) <= Len(k)
    /\ SubSeq(k, 1, Len(addr)) = addr

\* list(devices.values())
values(d) == [i \in 1..Len(d) |-> d[i].client]

\* for k, v in devices.items(): if k.startswith(addr): filtered.append(v)
RECURSIVE items_loop(_, _, _)
items_loop(d, addr, filtered) ==
    IF d = <<>> THEN filtered
    ELSE items_loop(Tail(d), addr,
                    IF startswith(Head(d).address, addr)
                    THEN Append(filtered, Head(d).client)
                    ELSE filtered)

\* for addr in addresses: ...
RECURSIVE addresses_loop(_, _, _)
addresses_loop(d, addresses, filtered) ==
    IF addresses = <<>> THEN filtered
    ELSE addresses_loop(d, Tail(addresses),
                        items_loop(d, Head(addresses), filtered))

\* a variant that lists each matching device once, in dictionary order
filter_devices_each_once(d, addresses) ==
    IF Len(addresses) = 0 THEN values(d)
    ELSE LET hit(item) == \E j \in 1..Len(addresses) :
                              startswith(item.address, addresses[j])
         IN  values(SelectSeq(d, hit))

filter_devices(d, addresses) ==
    IF Len(addresses) = 0 THEN values(d)
    ELSE addresses_loop(d, addresses, <<>>)

InitFilter ==
    /\ mode = "filter"
    /\ IdleCmd
    /\ sched = DefaultSchedule /\ raw = <<>> /\ back = Pending
    /\ buf = <<>> /\ which = "none" /\ res = Pending
    /\ enc = "none" /\ packet = <<>>
    /\ inp \in AddressLists
    /\ devices \in Dicts
    /\ made = <<>> /\ disc = "idle" /\ heard = 0

\* command_devices = filter_devices(devices, args.devices)
Filter ==
    /\ mode = "filter" /\ res = Pending
    /\ res' = Ret(filter_devices(devices, inp))
    /\ UNCHANGED <<mode, sched, raw, back, buf, which, enc, inp, packet>>
    /\ UNCHANGED cmdVars
    /\ UNCHANGED discVars

NextFilter == Filter

SpecFilter == InitFilter /\ [][NextFilter]_vars

\* the (prefix, device) pairs that match: j-th given prefix, i-th device
MatchingPairs ==
    {p \in (1..Len(inp)) \X (1..Len(devices)) :
        \E n \in 0..Len(devices[p[2]].address) :
            /\ n = Len(inp[p[1]])
            /\ \A c \in 1..n : devices[p[2]].address[c] = inp[p[1]][c]}

\* the pairs that come before p: an earlier prefix, or the same prefix
\* and a device earlier in the dictionary
PairsBefore(p) ==
    {q \in MatchingPairs : q[1] < p[1] \/ (q[1] = p[1] /\ q[2] < p[2])}

(* C31: with an empty address list filter_devices returns every           *)
(* registered device exactly once; otherwise the list has one entry per   *)
(* matching (prefix, device) pair and no other entry, the entries of an   *)
(* earlier prefix before those of a later one, so that a device appears   *)
(* as many times as given prefixes match its address.                     *)
C31_FilterDevices ==
    (mode = "filter" /\ res # Pending) =>
        /\ IsRet(res)
        /\ inp = <<>> =>
              /\ Len(res.val) = Len(devices)
              /\ \A i \in 1..Len(devices) :
                    Cardinality({x \in 1..Len(res.val) :
                                    res.val[x] = devices[i].client}) = 1
        /\ inp # <<>> =>
              /\ Len(res.val) = Cardinality(MatchingPairs)
              /\ \A p \in MatchingPairs :
                    res.val[Cardinality(PairsBefore(p)) + 1]
                        = devices[p[2]].client

\* two different prefixes were given that both match the address of one
\* device, and that device is in the returned list twice
C31_Witness ==
    /\ mode = "filter" /\ res # Pending
    /\ Len(devices) = 2 /\ Len(inp) = 2 /\ inp[1] # inp[2]
    /\ \E i \in 1..Len(devices) :
          /\ {<<1, i>>, <<2, i>>} \subseteq MatchingPairs
          /\ Cardinality({x \in 1..Len(res.val) :
                             res.val[x] = devices[i].client}) = 2

=============================================================================
